---- MODULE Spec2Model ----
(***************************************************************************)
(* The executive loop of src/src/lib.rs (start_emulator) with its two      *)
(* emulator instances (cpu/stats and cpu1/stats1), and record_fps.         *)
(*                                                                         *)
(* The loop body is modelled statement group by statement group; `pc` is   *)
(* the position of start_emulator.  The collaborators whose code lives in  *)
(* other modules (cpu, ppu, apu, gfx, input, audio) are modelled by their  *)
(* contract: every outcome the contract allows is a possible step.         *)
(***************************************************************************)
EXTENDS Naturals, Integers, Sequences, FiniteSets, TLC

\* ------------------------------------------------------------------ bounds

\* Loop iterations explored when the counters are exact (mode "bounded").
MaxSteps == 3
\* Entries a CPU trace buffer holds between two frame boundaries.
MaxTrace == 2
\* Seconds the host clock can reach; at the bound it stands still.
MaxNow == 1
\* Modulus of the counters in free-running mode.
CounterMod == 2

\* ------------------------------------------------------------------ state

VARIABLES
    pc,           \* position in start_emulator
    audio,        \* cfg(feature = "audio"): fixed by the build
    exact,        \* TRUE: counters are exact and the run is cut at MaxSteps;
                  \* FALSE: counters are kept modulo CounterMod (free running)
    cpu,          \* cpu, cpu1: [cy, conditional_jump, trace buffers, gamepad_0]
    ppu_cy,       \* the cycle each PPU was last advanced to
    apu_cy,       \* the cycle each APU was last advanced to
    stats,        \* stats, stats1
    ppu_result,   \* ppu_result, ppu_result1 of the current iteration
    now,          \* the host clock, and `now` of the current iteration
    started,      \* the `started` latch
    status_line,  \* gfx.status_line
    input_result, \* what check_input returned in this iteration
    sav,          \* state.sav: << >> when there is no file, else <<saved state>>
    env,          \* what the collaborators can do in this run (fixed at start)
    panicked,     \* "no", or the panic that unwound start_emulator
    calls,        \* calls made on the collaborators in the current iteration
    mapper,       \* the one Mapper behind both emulators' buses: its bank register
    twin          \* a second run's Stats and trace buffers, when two runs are compared

vars == <<pc, audio, exact, cpu, ppu_cy, apu_cy, stats, ppu_result, now,
          started, status_line, input_result, sav, env, panicked, calls, mapper,
          twin>>

Emus == {0, 1}

\* usize/u64 `+= 1` and `+= d`: exact, or modulo CounterMod when free running.
Add(n, d) == IF exact THEN n + d ELSE (n + d) % CounterMod
Inc(n) == Add(n, 1)

\* ---------------------------------------------------------------- Stats

\* #[derive(Default)] struct Stats, with last_time set by Stats::new().
StatsNew(t) ==
    [ last_time             |-> t,
      frames                |-> 0,
      conditional_jumps     |-> 0,
      conditional_jumps_s   |-> 0,
      steps                 |-> 0,
      steps_s               |-> 0,
      branches_taken        |-> << >>,
      branches_not_taken    |-> << >>,
      addrs_visited         |-> {},
      addrs_not_visited     |-> {},
      addrs_visited_old     |-> {},
      addrs_not_visited_old |-> {},
      loads                 |-> << >>,
      stores                |-> << >>,
      memory_reads          |-> {},
      memory_reads_old      |-> {},
      memory_writes         |-> {},
      memory_writes_old     |-> {} ]

Range(s) == { s[i] : i \in 1..Len(s) }

\* A slip: the frame counter asserted along with the four sets.
record_fps_asserts_fresh_second(s) ==
    /\ s.addrs_visited = {}
    /\ s.addrs_not_visited = {}
    /\ s.memory_reads = {}
    /\ s.memory_writes = {}
    /\ s.frames = 0

\* The assert!s of record_fps (lines 85, 86, 120, 124).
record_fps_asserts(s) ==
    /\ s.addrs_visited = {}
    /\ s.addrs_not_visited = {}
    /\ s.memory_reads = {}
    /\ s.memory_writes = {}

\* Lines 84-91, 119-126: the sets are extended from the hand-off buffers.
record_fps_collect(s) ==
    [ s EXCEPT
        !.addrs_visited     = @ \cup Range(s.branches_taken),
        !.addrs_not_visited = @ \cup Range(s.branches_not_taken),
        !.memory_reads      = @ \cup { x[2] : x \in Range(s.loads) },
        !.memory_writes     = @ \cup { x[2] : x \in Range(s.stores) } ]

\* The Stats a failing assert! leaves behind: the asserts are made in turn
\* (lines 85, 86, 120, 124), each after the extends that precede it.
record_fps_unwound(s) ==
    LET s1 == [ s EXCEPT !.addrs_visited     = @ \cup Range(s.branches_taken),
                         !.addrs_not_visited = @ \cup Range(s.branches_not_taken) ]
        s2 == [ s1 EXCEPT !.memory_reads = @ \cup { x[2] : x \in Range(s.loads) } ]
    IN  IF s.addrs_visited # {} \/ s.addrs_not_visited # {} THEN s
        ELSE IF s.memory_reads # {} THEN s1
        ELSE s2

\* A slip: the per-second jump counter left out of the reset.
record_fps_second_keeps_jumps(s, t) ==
    IF t >= s.last_time + 1
    THEN [ s EXCEPT !.frames = 0,
                    !.steps_s = 0,
                    !.last_time = t ]
    ELSE [ s EXCEPT !.frames = Inc(@) ]

\* Lines 188-215: the once-per-second reset, else one more frame.
record_fps_second(s, t) ==
    IF t >= s.last_time + 1
    THEN [ s EXCEPT !.frames = 0,
                    !.conditional_jumps_s = 0,
                    !.steps_s = 0,
                    !.last_time = t ]
    ELSE [ s EXCEPT !.frames = Inc(@) ]

\* A slip: memory_reads copied into memory_reads_old instead of moved.
record_fps_rotate_copies_reads(s) ==
    [ s EXCEPT
        !.branches_taken        = << >>,
        !.branches_not_taken    = << >>,
        !.addrs_visited_old     = s.addrs_visited,
        !.addrs_visited         = {},
        !.addrs_not_visited_old = s.addrs_not_visited,
        !.addrs_not_visited     = {},
        !.loads                 = << >>,
        !.stores                = << >>,
        !.memory_reads_old      = s.memory_reads,
        !.memory_writes_old     = s.memory_writes,
        !.memory_writes         = {} ]

\* Lines 217-226: buffers cleared, sets moved into their *_old fields.
record_fps_rotate(s) ==
    [ s EXCEPT
        !.branches_taken        = << >>,
        !.branches_not_taken    = << >>,
        !.addrs_visited_old     = s.addrs_visited,
        !.addrs_visited         = {},
        !.addrs_not_visited_old = s.addrs_not_visited,
        !.addrs_not_visited     = {},
        !.loads                 = << >>,
        !.stores                = << >>,
        !.memory_reads_old      = s.memory_reads,
        !.memory_reads          = {},
        !.memory_writes_old     = s.memory_writes,
        !.memory_writes         = {} ]

\* record_fps(stats, now, prefix, print), for a call whose asserts pass.
record_fps(s, t) ==
    record_fps_rotate(record_fps_second(record_fps_collect(s), t))

\* ------------------------------------------------------------------ Cpu

Buttons == {"a", "start", "right"}
GamePadState == [Buttons -> BOOLEAN]
NoButtons == [b \in Buttons |-> FALSE]

\* Cpu::new(memmap) followed by reset(): nothing traced, no cycle elapsed.
CpuNew ==
    [ cy                 |-> 0,
      conditional_jump   |-> FALSE,
      branches_taken     |-> << >>,
      branches_not_taken |-> << >>,
      loads              |-> << >>,
      stores             |-> << >>,
      gamepad_0          |-> NoButtons ]

\* The instructions cpu.step() can execute, by what the stats and the trace
\* buffers see of them; a store into the mapper's registers is the further
\* kind "bank_select".
Kinds == {"branch_taken", "branch_not_taken", "load", "store", "other"}

Cost(k) ==
    CASE k = "branch_taken"     -> 3
      [] k = "branch_not_taken" -> 2
      [] k = "load"             -> 4
      [] k = "store"            -> 4
      [] k = "bank_select"      -> 4
      [] OTHER                  -> 2

BranchSites == { <<16, 32>> }
LoadSites   == { <<"a", 16>> }
StoreSites  == { <<"x", 16>> }

\* What instruction kind k can append to the trace buffers.
Traces(k) ==
    CASE k = "branch_taken"     -> { [f |-> "branches_taken", x |-> b] : b \in BranchSites }
      [] k = "branch_not_taken" -> { [f |-> "branches_not_taken", x |-> b] : b \in BranchSites }
      [] k = "load"             -> { [f |-> "loads", x |-> l] : l \in LoadSites }
      [] k = "store"            -> { [f |-> "stores", x |-> l] : l \in StoreSites }
      [] k = "bank_select"      -> { [f |-> "stores", x |-> l] : l \in StoreSites }
      [] OTHER                  -> { [f |-> "none", x |-> << >>] }

\* cpu.step(): one instruction of kind k, recording trace entry t.
cpu_step(c, k, t) ==
    LET d == [ c EXCEPT !.cy = Add(@, Cost(k)),
                        !.conditional_jump = (k \in {"branch_taken", "branch_not_taken"}) ]
    IN  IF t.f = "none" THEN d ELSE [ d EXCEPT ![t.f] = Append(@, t.x) ]

\* A store into the mapper's register range ("bank_select") goes through the
\* mapper's write handler: it selects the other PRG bank.
mapper_store(m, k) == IF k = "bank_select" THEN 1 - m ELSE m

\* The trace buffers are bounded by MaxTrace entries between two hand-offs.
CanStep(c, t) == IF t.f = "none" THEN TRUE ELSE Len(c[t.f]) < MaxTrace

\* ------------------------------------------------------------ collaborators

\* ppu.step(cy) -> StepResult
StepResult == [vblank_nmi : BOOLEAN, scanline_irq : BOOLEAN, new_frame : BOOLEAN]
NoResult == [vblank_nmi |-> FALSE, scanline_irq |-> FALSE, new_frame |-> FALSE]

\* input.check_input() -> InputResult
InputResult == {"Continue", "Quit", "SaveState", "LoadState"}

\* ------------------------------------------------------------ environment

FrameOnly == [vblank_nmi |-> FALSE, scanline_irq |-> FALSE, new_frame |-> TRUE]

\* state.sav as an earlier session can have left it: start_emulator neither
\* creates nor removes it before the loop.
SavedEarlier == [cy |-> 1, ppu_cy |-> 1, apu_cy |-> 1]
Files == { << >>, <<SavedEarlier>> }

\* Seconds the host clock can advance between the two Stats::new() of lines
\* 257-258, each of which reads it (line 73).
Skews == {0, 1}

\* What the collaborators do when they are not the aspect under study.
Quiet ==
    [ kinds   |-> [e \in Emus |-> {"other"}],
      results |-> [e \in Emus |-> {NoResult, FrameOnly}],
      inputs  |-> {"Continue", "Quit"},
      pads    |-> {NoButtons},
      ticks   |-> {0},
      files   |-> { << >> },
      skews   |-> {0} ]

\* The runs explored: the collaborators are varied one aspect at a time
\* (either CPU's instructions, the host clock, the stores into the mapper, the
\* PPUs' reports, the input).  The file an earlier session left and the clock
\* read between the two Stats::new() vary in every run but those that vary a
\* CPU's instructions.
Profiles ==
    { [Quiet EXCEPT !.kinds[e] = Kinds, !.inputs = {"Continue"}] : e \in Emus }
    \cup { [Quiet EXCEPT !.kinds[0] = {"other", "branch_taken"}, !.ticks = {0, 1},
                         !.skews = Skews, !.files = Files, !.inputs = {"Continue"}] }
    \cup { [Quiet EXCEPT !.kinds = [e \in Emus |-> {"other", "bank_select"}],
                         !.results[1] = {NoResult}, !.skews = Skews, !.files = Files,
                         !.inputs = {"Continue"}] }
    \cup { [Quiet EXCEPT !.results = [e \in Emus |-> StepResult],
                         !.skews = Skews, !.files = Files] }
    \cup { [Quiet EXCEPT !.results[1] = {NoResult}, !.inputs = InputResult, !.pads = GamePadState,
                         !.skews = Skews, !.files = Files] }

\* ------------------------------------------------------------- second run

\* Two runs of the loop are compared by running the second one alongside the
\* first: same instructions, same PPU results, same input, hence one `pc` and
\* one `calls`; but Stats and trace buffers of its own, filled with other trace
\* entries and stamped by a clock of its own.  `agrees` records that every test
\* of the loop that reads a Stats or a trace buffer came out in the second run
\* as it did in the first.  Specifications about one run leave the twin off.
TwinOff == [on |-> FALSE]

NoTraces ==
    [ branches_taken |-> << >>, branches_not_taken |-> << >>,
      loads |-> << >>, stores |-> << >> ]

\* The second run after lines 257-260, its clock d late at the second Stats::new().
TwinStart(d) ==
    [ on     |-> TRUE,
      agrees |-> TRUE,
      now    |-> d,
      stats  |-> [e \in Emus |-> IF e = 0 THEN StatsNew(0) ELSE StatsNew(d)],
      trace  |-> [e \in Emus |-> NoTraces] ]

\* The entry the second run's CPU records where the first records t: the same
\* kind of access, at another place.
other_site(t) ==
    IF t.f \in {"branches_taken", "branches_not_taken"}
    THEN <<t.x[1] + 1, t.x[2] + 1>>
    ELSE <<t.x[1], t.x[2] + 1>>

\* cpu.step() of emulator e in the second run.
twin_cpu_step(w, e, t) ==
    IF w.on /\ t.f # "none"
    THEN [ w EXCEPT !.trace[e][t.f] = Append(@, other_site(t)) ]
    ELSE w

\* ------------------------------------------------------------------- Init

InitCommon ==
    /\ pc = "cpu_step"
    /\ audio \in BOOLEAN
    /\ cpu = [e \in Emus |-> CpuNew]
    /\ ppu_cy = [e \in Emus |-> 0]
    /\ apu_cy = [e \in Emus |-> 0]
    /\ \E d \in env.skews :
          /\ stats = [e \in Emus |-> IF e = 0 THEN StatsNew(0) ELSE StatsNew(d)]
          /\ now = d
    /\ ppu_result = [e \in Emus |-> NoResult]
    /\ started = FALSE
    /\ status_line = ""
    /\ input_result = "none"
    /\ sav \in env.files
    /\ panicked = "no"
    /\ calls = << >>
    /\ mapper = 0

Init == exact = TRUE /\ env \in Profiles /\ InitCommon /\ twin = TwinOff

\* ------------------------------------------------------------ the loop body

\* A call on a collaborator: which operation, of which emulator, with what
\* argument (for cpu.step: the cycle count it leaves in cy).
Ev(op, e, arg) == [op |-> op, emu |-> e, arg |-> arg]

Called(c) == calls' = calls \o c

\* Line 263: cpu.step()
CpuStep ==
    /\ pc = "cpu_step"
    /\ exact => stats[0].steps < MaxSteps
    /\ \E k \in env.kinds[0] : \E t \in Traces(k) :
          /\ CanStep(cpu[0], t)
          /\ cpu' = [cpu EXCEPT ![0] = cpu_step(@, k, t)]
          /\ mapper' = mapper_store(mapper, k)
          /\ twin' = twin_cpu_step(twin, 0, t)
    /\ Called(<<Ev("cpu.step", 0, cpu'[0].cy)>>)
    /\ pc' = "cpu1_step"
    /\ UNCHANGED <<audio, exact, env, ppu_cy, apu_cy, stats, ppu_result, now, started,
                   status_line, input_result, sav, panicked>>

\* Line 264: cpu1.step()
Cpu1Step ==
    /\ pc = "cpu1_step"
    /\ \E k \in env.kinds[1] : \E t \in Traces(k) :
          /\ CanStep(cpu[1], t)
          /\ cpu' = [cpu EXCEPT ![1] = cpu_step(@, k, t)]
          /\ mapper' = mapper_store(mapper, k)
          /\ twin' = twin_cpu_step(twin, 1, t)
    /\ Called(<<Ev("cpu.step", 1, cpu'[1].cy)>>)
    /\ pc' = "count"
    /\ UNCHANGED <<audio, exact, env, ppu_cy, apu_cy, stats, ppu_result, now, started,
                   status_line, input_result, sav, panicked>>

\* Lines 266-280 for one Stats and its Cpu.
count_step(s, c) ==
    [ s EXCEPT !.steps = Inc(@),
               !.steps_s = Inc(@),
               !.conditional_jumps = IF c.conditional_jump THEN Inc(@) ELSE @,
               !.conditional_jumps_s = IF c.conditional_jump THEN Inc(@) ELSE @ ]

\* Lines 266-280 in the second run: conditional_jump is the CPU's, not a trace.
twin_count(w, c) ==
    IF w.on
    THEN [ w EXCEPT !.stats = [e \in Emus |-> count_step(w.stats[e], c[e])] ]
    ELSE w

\* Lines 266-280
CountSteps ==
    /\ pc = "count"
    /\ stats' = [e \in Emus |-> count_step(stats[e], cpu[e])]
    /\ pc' = "ppu_step"
    /\ twin' = twin_count(twin, cpu)
    /\ UNCHANGED <<audio, exact, env, mapper, cpu, ppu_cy, apu_cy, ppu_result, now, started,
                   status_line, input_result, sav, panicked, calls>>

\* A slip: two independent `if`s, so that both interrupts are raised.
dispatch_both(r, e) ==
    (IF r.vblank_nmi THEN <<Ev("cpu.nmi", e, 0)>> ELSE << >>)
    \o (IF r.scanline_irq THEN <<Ev("cpu.irq", e, 0)>> ELSE << >>)

\* A copy-and-paste slip: cpu1's interrupts raised on cpu.
dispatch_on_cpu(r, e) ==
    IF r.vblank_nmi THEN <<Ev("cpu.nmi", 0, 0)>>
    ELSE IF r.scanline_irq THEN <<Ev("cpu.irq", 0, 0)>>
    ELSE << >>

\* Lines 283-287 and 290-294: which interrupt call follows a StepResult.
dispatch(r, e) ==
    IF r.vblank_nmi THEN <<Ev("cpu.nmi", e, 0)>>
    ELSE IF r.scanline_irq THEN <<Ev("cpu.irq", e, 0)>>
    ELSE << >>

\* A copy-and-paste slip: cpu1's counter handed to cpu's PPU.
ppu_arg_of_cpu1 == cpu[1].cy

\* Line 282: the cycle count handed to ppu.step
ppu_arg == cpu[0].cy
\* Line 289: the cycle count handed to cpu1's ppu.step
ppu1_arg == cpu[1].cy

\* Lines 282-287
PpuStep ==
    /\ pc = "ppu_step"
    /\ \E r \in env.results[0] :
          /\ ppu_result' = [ppu_result EXCEPT ![0] = r]
          /\ Called(<<Ev("ppu.step", 0, ppu_arg)>> \o dispatch(r, 0))
    /\ ppu_cy' = [ppu_cy EXCEPT ![0] = ppu_arg]
    /\ pc' = "ppu1_step"
    /\ UNCHANGED <<audio, exact, env, twin, mapper, cpu, apu_cy, stats, now, started,
                   status_line, input_result, sav, panicked>>

\* Lines 289-294
Ppu1Step ==
    /\ pc = "ppu1_step"
    /\ \E r \in env.results[1] :
          /\ ppu_result' = [ppu_result EXCEPT ![1] = r]
          /\ Called(<<Ev("ppu.step", 1, ppu1_arg)>> \o dispatch(r, 1))
    /\ ppu_cy' = [ppu_cy EXCEPT ![1] = ppu1_arg]
    /\ pc' = "apu_step"
    /\ UNCHANGED <<audio, exact, env, twin, mapper, cpu, apu_cy, stats, now, started,
                   status_line, input_result, sav, panicked>>

\* A copy-and-paste slip: cpu's counter handed to both APUs.
apu_args_of_cpu == [e \in Emus |-> cpu[0].cy]

\* Lines 298-299: the cycle counts handed to apu.step, per emulator.
apu_args == [e \in Emus |-> cpu[e].cy]

\* Lines 296-300: compiled in only with the audio feature.
ApuStep ==
    /\ pc = "apu_step"
    /\ IF audio
       THEN /\ apu_cy' = apu_args
            /\ Called(<<Ev("apu.step", 0, apu_args[0]), Ev("apu.step", 1, apu_args[1])>>)
       ELSE UNCHANGED <<apu_cy, calls>>
    /\ pc' = "now"
    /\ UNCHANGED <<audio, exact, env, twin, mapper, cpu, ppu_cy, stats, ppu_result, now, started,
                   status_line, input_result, sav, panicked>>

\* Line 302 in the second run: its clock advances by d of its own.
TwinTicks(w) == IF w.on THEN env.ticks ELSE {0}
twin_clock(w, d) ==
    IF w.on
    THEN [ w EXCEPT !.now = IF @ + d <= MaxNow THEN @ + d ELSE @ ]
    ELSE w

\* A slip: the frame block entered on the test of line 304 (either emulator).
ReadClock_either_frame ==
    /\ pc = "now"
    /\ \E d \in env.ticks : now' = IF now + d <= MaxNow THEN now + d ELSE now
    /\ pc' = IF ppu_result[0].new_frame \/ ppu_result[1].new_frame THEN "swap" ELSE "frame1"
    /\ \E d \in TwinTicks(twin) : twin' = twin_clock(twin, d)
    /\ UNCHANGED <<audio, exact, env, mapper, cpu, ppu_cy, apu_cy, stats, ppu_result, started,
                   status_line, input_result, sav, panicked, calls>>

\* Lines 302-309: `now` is read, then the frame test of emulator 0.
ReadClock ==
    /\ pc = "now"
    /\ \E d \in env.ticks : now' = IF now + d <= MaxNow THEN now + d ELSE now
    /\ pc' = IF ppu_result[0].new_frame THEN "swap" ELSE "frame1"
    /\ \E d \in TwinTicks(twin) : twin' = twin_clock(twin, d)
    /\ UNCHANGED <<audio, exact, env, mapper, cpu, ppu_cy, apu_cy, stats, ppu_result, started,
                   status_line, input_result, sav, panicked, calls>>

\* A slip: the CPU keeps its buffers (a copy where the swap should be).
swap_cpu_keeps(s, c) == c

\* std::mem::swap of the four trace buffers of a Stats and its Cpu.
swap_stats(s, c) ==
    [ s EXCEPT !.branches_taken = c.branches_taken,
               !.branches_not_taken = c.branches_not_taken,
               !.stores = c.stores,
               !.loads = c.loads ]
swap_cpu(s, c) ==
    [ c EXCEPT !.branches_taken = s.branches_taken,
               !.branches_not_taken = s.branches_not_taken,
               !.stores = s.stores,
               !.loads = s.loads ]

\* Lines 310-314 and 356-360 in the second run.
twin_swap(w, e) ==
    IF w.on
    THEN [ w EXCEPT !.stats[e] = swap_stats(w.stats[e], w.trace[e]),
                    !.trace[e] = swap_cpu(w.stats[e], w.trace[e]) ]
    ELSE w

\* record_fps in the second run, where the first run's asserts came out as
\* `passed`: the second run's asserts are made on its own Stats.
twin_record_fps(w, e, passed) ==
    IF ~w.on THEN w
    ELSE IF record_fps_asserts(w.stats[e])
         THEN [ w EXCEPT !.stats[e] = record_fps(@, w.now), !.agrees = @ /\ passed ]
         ELSE [ w EXCEPT !.stats[e] = record_fps_unwound(@), !.agrees = @ /\ ~passed ]

\* Lines 310-314
SwapBuffers ==
    /\ pc = "swap"
    /\ stats' = [stats EXCEPT ![0] = swap_stats(stats[0], cpu[0])]
    /\ cpu' = [cpu EXCEPT ![0] = swap_cpu(stats[0], cpu[0])]
    /\ pc' = "present"
    /\ twin' = twin_swap(twin, 0)
    /\ UNCHANGED <<audio, exact, env, mapper, ppu_cy, apu_cy, ppu_result, now, started,
                   status_line, input_result, sav, panicked, calls>>

\* A slip: the framebuffers composited before the sinks are ticked.
Present_composite_first ==
    /\ pc = "present"
    /\ Called(<<Ev("gfx.composite", 0, 0), Ev("gfx.tick", 0, 0),
                 Ev("gfx.composite", 1, 1), Ev("gfx.tick", 1, 0)>>)
    /\ pc' = "record_fps"
    /\ UNCHANGED <<audio, exact, env, twin, mapper, cpu, ppu_cy, apu_cy, stats, ppu_result, now, started,
                   status_line, input_result, sav, panicked>>

\* Lines 316-320
Present ==
    /\ pc = "present"
    /\ Called(<<Ev("gfx.tick", 0, 0), Ev("gfx.composite", 0, 0),
                 Ev("gfx.tick", 1, 0), Ev("gfx.composite", 1, 1)>>)
    /\ pc' = "record_fps"
    /\ UNCHANGED <<audio, exact, env, twin, mapper, cpu, ppu_cy, apu_cy, stats, ppu_result, now, started,
                   status_line, input_result, sav, panicked>>

\* Line 322: record_fps(&mut stats, now, "cpu0", true)
RecordFps ==
    /\ pc = "record_fps"
    /\ IF record_fps_asserts(stats[0])
       THEN /\ stats' = [stats EXCEPT ![0] = record_fps(@, now)]
            /\ Called(<<Ev("record_fps", 0, now)>>)
            /\ pc' = "play_channels"
            /\ UNCHANGED panicked
       ELSE /\ stats' = [stats EXCEPT ![0] = record_fps_unwound(@)]
            /\ panicked' = "assert"
            /\ pc' = "panicked"
            /\ UNCHANGED calls
    /\ twin' = twin_record_fps(twin, 0, record_fps_asserts(stats[0]))
    /\ UNCHANGED <<audio, exact, env, mapper, cpu, ppu_cy, apu_cy, ppu_result, now, started,
                   status_line, input_result, sav>>

\* Lines 324-325: compiled in only with the audio feature.
PlayChannels ==
    /\ pc = "play_channels"
    /\ IF audio THEN Called(<<Ev("play_channels", 0, 0)>>) ELSE UNCHANGED calls
    /\ pc' = "check_input"
    /\ UNCHANGED <<audio, exact, env, twin, mapper, cpu, ppu_cy, apu_cy, stats, ppu_result, now, started,
                   status_line, input_result, sav, panicked>>

\* Line 327: cpu.mem.input.check_input() polls the host; it updates gamepad_0.
CheckInput ==
    /\ pc = "check_input"
    /\ \E r \in env.inputs : input_result' = r
    /\ \E g \in env.pads : cpu' = [cpu EXCEPT ![0].gamepad_0 = g]
    /\ Called(<<Ev("check_input", 0, 0)>>)
    /\ pc' = "match"
    /\ UNCHANGED <<audio, exact, env, twin, mapper, ppu_cy, apu_cy, stats, ppu_result, now, started,
                   status_line, sav, panicked>>

\* Line 328
InputContinue ==
    /\ pc = "match"
    /\ input_result = "Continue"
    /\ pc' = "mirror"
    /\ UNCHANGED <<audio, exact, env, twin, mapper, cpu, ppu_cy, apu_cy, stats, ppu_result, now, started,
                   status_line, input_result, sav, panicked, calls>>

\* A slip: Quit handled like Continue.
InputQuit_continues ==
    /\ pc = "match"
    /\ input_result = "Quit"
    /\ pc' = "mirror"
    /\ UNCHANGED <<audio, exact, env, twin, mapper, cpu, ppu_cy, apu_cy, stats, ppu_result, now, started,
                   status_line, input_result, sav, panicked, calls>>

\* Line 329
InputQuit ==
    /\ pc = "match"
    /\ input_result = "Quit"
    /\ pc' = "close"
    /\ UNCHANGED <<audio, exact, env, twin, mapper, cpu, ppu_cy, apu_cy, stats, ppu_result, now, started,
                   status_line, input_result, sav, panicked, calls>>

\* Lines 330-333: File::create(..).unwrap() panics when the file cannot be created.
InputSaveState ==
    /\ pc = "match"
    /\ input_result = "SaveState"
    /\ \E created \in BOOLEAN :
          IF created
          THEN /\ sav' = << [cy |-> cpu[0].cy, ppu_cy |-> ppu_cy[0], apu_cy |-> apu_cy[0]] >>
               /\ status_line' = "Saved state"
               /\ pc' = "mirror"
               /\ UNCHANGED panicked
          ELSE /\ panicked' = "unwrap"
               /\ pc' = "panicked"
               /\ UNCHANGED <<sav, status_line>>
    /\ UNCHANGED <<audio, exact, env, twin, mapper, cpu, ppu_cy, apu_cy, stats, ppu_result, now, started,
                   input_result, calls>>

\* Lines 334-337: File::open(..).unwrap() panics when state.sav cannot be
\* opened: always when there is no file, and possibly when there is one (no
\* permission to read it, no file descriptor left).
InputLoadState ==
    /\ pc = "match"
    /\ input_result = "LoadState"
    /\ \E opened \in (IF sav # << >> THEN BOOLEAN ELSE {FALSE}) :
          IF opened
          THEN /\ cpu' = [cpu EXCEPT ![0].cy = sav[1].cy]
               /\ ppu_cy' = [ppu_cy EXCEPT ![0] = sav[1].ppu_cy]
               /\ apu_cy' = [apu_cy EXCEPT ![0] = sav[1].apu_cy]
               /\ status_line' = "Loaded state"
               /\ pc' = "mirror"
               /\ UNCHANGED panicked
          ELSE /\ panicked' = "unwrap"
               /\ pc' = "panicked"
               /\ UNCHANGED <<cpu, ppu_cy, apu_cy, status_line>>
    /\ UNCHANGED <<audio, exact, env, twin, mapper, stats, ppu_result, now, started,
                   input_result, sav, calls>>

\* A slip: right forced whether or not `started` is set.
mirror_gamepad_forced(g, s) == [g EXCEPT !["right"] = TRUE]

\* Lines 343-347: cpu1's gamepad after the copy.
mirror_gamepad(g, s) == IF s THEN [g EXCEPT !["right"] = TRUE] ELSE g

\* A slip: `started` follows the start button instead of latching.
latch_started_follows(s, g) == g["start"]

\* Lines 349-352
latch_started(s, g) == IF ~s /\ g["start"] THEN TRUE ELSE s

\* Lines 343-352
MirrorGamepad ==
    /\ pc = "mirror"
    /\ cpu' = [cpu EXCEPT ![1].gamepad_0 = mirror_gamepad(cpu[0].gamepad_0, started)]
    /\ started' = latch_started(started, cpu'[1].gamepad_0)
    /\ pc' = "frame1"
    /\ UNCHANGED <<audio, exact, env, twin, mapper, ppu_cy, apu_cy, stats, ppu_result, now,
                   status_line, input_result, sav, panicked, calls>>

\* Lines 355-363
Frame1 ==
    /\ pc = "frame1"
    /\ ppu_result[1].new_frame
    /\ LET s == swap_stats(stats[1], cpu[1])
       IN  IF record_fps_asserts(s)
           THEN /\ stats' = [stats EXCEPT ![1] = record_fps(s, now)]
                /\ cpu' = [cpu EXCEPT ![1] = swap_cpu(stats[1], cpu[1])]
                /\ Called(<<Ev("record_fps", 1, now)>>)
                /\ pc' = "loop_end"
                /\ UNCHANGED panicked
           ELSE /\ stats' = [stats EXCEPT ![1] = record_fps_unwound(s)]
                /\ cpu' = [cpu EXCEPT ![1] = swap_cpu(stats[1], cpu[1])]
                /\ panicked' = "assert"
                /\ pc' = "panicked"
                /\ UNCHANGED calls
    /\ twin' = twin_record_fps(twin_swap(twin, 1), 1,
                                record_fps_asserts(swap_stats(stats[1], cpu[1])))
    /\ UNCHANGED <<audio, exact, env, mapper, ppu_cy, apu_cy, ppu_result, now, started,
                   status_line, input_result, sav>>

\* Line 355, condition false
NoFrame1 ==
    /\ pc = "frame1"
    /\ ~ppu_result[1].new_frame
    /\ pc' = "loop_end"
    /\ UNCHANGED <<audio, exact, env, twin, mapper, cpu, ppu_cy, apu_cy, stats, ppu_result, now, started,
                   status_line, input_result, sav, panicked, calls>>

\* Line 364: the iteration's locals go out of scope and the loop starts over.
NextIteration ==
    /\ pc = "loop_end"
    /\ ppu_result' = [e \in Emus |-> NoResult]
    /\ input_result' = "none"
    /\ calls' = << >>
    /\ pc' = "cpu_step"
    /\ UNCHANGED <<audio, exact, env, twin, mapper, cpu, ppu_cy, apu_cy, stats, now, started,
                   status_line, sav, panicked>>

\* Line 366: audio::close(), then start_emulator returns.
Close ==
    /\ pc = "close"
    /\ Called(<<Ev("audio.close", 0, 0)>>)
    /\ pc' = "returned"
    /\ UNCHANGED <<audio, exact, env, twin, mapper, cpu, ppu_cy, apu_cy, stats, ppu_result, now, started,
                   status_line, input_result, sav, panicked>>

Next ==
    \/ CpuStep \/ Cpu1Step \/ CountSteps \/ PpuStep \/ Ppu1Step \/ ApuStep
    \/ ReadClock \/ SwapBuffers \/ Present \/ RecordFps \/ PlayChannels
    \/ CheckInput \/ InputContinue \/ InputQuit \/ InputSaveState \/ InputLoadState
    \/ MirrorGamepad \/ Frame1 \/ NoFrame1 \/ NextIteration \/ Close

Spec == Init /\ [][Next]_vars

\* The loop left to run freely: no cut at MaxSteps, counters modulo CounterMod.
\* start_emulator runs on one thread that is never suspended: whenever a step
\* is possible, one is eventually taken.  The input is the aspect varied.
LiveProfiles ==
    { [Quiet EXCEPT !.inputs = InputResult, !.files = Files, !.skews = Skews] }

InitLive == exact = FALSE /\ env \in LiveProfiles /\ InitCommon /\ twin = TwinOff

LiveSpec == InitLive /\ [][Next]_vars /\ WF_vars(Next)

\* Two runs side by side.  Either emulator 0 traces every instruction and each
\* run's clock ticks as it likes, or emulator 1 traces some instructions, both
\* PPUs report frames, and the input sink can give every answer.
PairProfiles ==
    { [Quiet EXCEPT !.kinds[0] = {"branch_taken", "load"}, !.ticks = {0, 1},
                    !.results[1] = {NoResult}, !.inputs = {"Continue"}] }
    \cup { [Quiet EXCEPT !.kinds[1] = {"other", "store"}, !.inputs = InputResult,
                         !.files = Files, !.skews = Skews] }

InitPair ==
    /\ exact = TRUE
    /\ env \in PairProfiles
    /\ InitCommon
    /\ \E d \in env.skews : twin = TwinStart(d)

PairSpec == InitPair /\ [][Next]_vars

\* ------------------------------------------------------- reading `calls`

\* Positions in `calls` of the calls of op on emulator e.
At(op, e) == { i \in 1..Len(calls) : calls[i].op = op /\ calls[i].emu = e }
Count(op, e) == Cardinality(At(op, e))
\* Every call of a on emulator e precedes every call of b on emulator f.
Before(a, e, b, f) == \A i \in At(a, e) : \A j \in At(b, f) : i < j
Once(op, e) == Count(op, e) = 1
Never(op, e) == Count(op, e) = 0

\* ------------------------------------------------------------------- C1

\* C1: in every iteration, for each emulator, cpu.step() is executed exactly
\* once and before that emulator's ppu.step, and the cycle value handed to
\* ppu.step is the cy that this cpu.step left (not an older one, and no second
\* cpu.step comes in between).
C1_StepThenPpu ==
    \A e \in Emus :
        /\ Count("cpu.step", e) <= 1
        /\ Count("ppu.step", e) <= 1
        /\ pc \notin {"cpu_step", "cpu1_step"} => Once("cpu.step", e)
        /\ pc \in {"apu_step", "now", "swap", "present", "record_fps", "play_channels",
                   "check_input", "match", "mirror", "frame1", "loop_end"}
              => Once("ppu.step", e)
        /\ \A j \in At("ppu.step", e) :
              /\ Once("cpu.step", e)
              /\ \A i \in At("cpu.step", e) : i < j /\ calls[j].arg = calls[i].arg

\* C1 witness: both PPUs have been advanced in an iteration in which the two
\* CPUs' counters differ, after an earlier iteration left cy at another value.
C1_Witness ==
    /\ pc = "apu_step"
    /\ stats[0].steps = 2
    /\ cpu[0].cy # cpu[1].cy
    /\ ppu_cy[0] = cpu[0].cy
    /\ ppu_cy[1] = cpu[1].cy

\* ------------------------------------------------------------------- C2

\* C2 as stated: every interrupt a ppu.step reports (vblank_nmi or
\* scanline_irq) is delivered to the same emulator's CPU (cpu.nmi() resp.
\* cpu.irq()) before that CPU's next cpu.step(); none is lost.
C2_EveryInterruptDelivered ==
    \A e \in Emus : \A j \in At("ppu.step", e) :
        /\ ppu_result[e].vblank_nmi => Once("cpu.nmi", e)
        /\ ppu_result[e].scanline_irq => Once("cpu.irq", e)

\* C2 as amended: a reported vblank_nmi is always delivered, by the call that
\* directly follows the ppu.step and so before the CPU's next cpu.step(); a
\* reported scanline_irq is delivered in the same way when the same ppu.step
\* did not report vblank_nmi, and is dropped when it did.
C2_DeliveredUnlessNmiWins ==
    \A e \in Emus : \A j \in At("ppu.step", e) :
        /\ \A i \in At("cpu.step", e) : i < j
        /\ ppu_result[e].vblank_nmi
              => /\ At("cpu.nmi", e) = {j + 1}
                 /\ Never("cpu.irq", e)
        /\ (ppu_result[e].scanline_irq /\ ~ppu_result[e].vblank_nmi)
              => At("cpu.irq", e) = {j + 1}

\* C2 witness: one PPU reported an NMI and the other only an IRQ, and both
\* were delivered.
C2_Witness ==
    /\ pc = "apu_step"
    /\ ppu_result[0].vblank_nmi /\ Once("cpu.nmi", 0)
    /\ ppu_result[1].scanline_irq /\ ~ppu_result[1].vblank_nmi /\ Once("cpu.irq", 1)

\* ------------------------------------------------------------------- C3

\* C3: per emulator and iteration at most one of cpu.nmi() and cpu.irq() is
\* called; cpu.nmi() iff the ppu.step reported vblank_nmi, cpu.irq() iff it
\* reported scanline_irq and not vblank_nmi (NMI wins when both are reported).
C3_NmiXorIrq ==
    \A e \in Emus :
        /\ Count("cpu.nmi", e) + Count("cpu.irq", e) <= 1
        /\ At("ppu.step", e) = {} => Never("cpu.nmi", e) /\ Never("cpu.irq", e)
        /\ At("ppu.step", e) # {}
              => /\ Once("cpu.nmi", e) <=> ppu_result[e].vblank_nmi
                 /\ Once("cpu.irq", e) <=>
                        (ppu_result[e].scanline_irq /\ ~ppu_result[e].vblank_nmi)

\* C3 witness: a ppu.step reported both, and only the NMI was raised.
C3_Witness ==
    /\ pc = "loop_end"
    /\ ppu_result[1].vblank_nmi /\ ppu_result[1].scanline_irq
    /\ Once("cpu.nmi", 1) /\ Never("cpu.irq", 1)

\* ------------------------------------------------------------------- C4

\* Positions of the frame block of lines 309-353 after check_input returned,
\* and of the rest of that iteration.
AfterPoll == {"match", "mirror", "frame1", "loop_end", "close", "returned"}

\* C4 as stated: the loop returns only after check_input() returned Quit; input
\* is polled only in an iteration in which emulator 0's PPU reported new_frame,
\* after that iteration's cpu.step; Continue, SaveState and LoadState never end
\* the loop; after Quit nothing more is stepped and audio::close() is called
\* exactly once.
C4_OnlyQuitEndsTheLoop ==
    /\ pc \in {"close", "returned"} => input_result = "Quit"
    /\ Count("check_input", 0) <= 1
    /\ At("check_input", 0) # {}
          => /\ ppu_result[0].new_frame
             /\ \A e \in Emus : Once("cpu.step", e) /\ Before("cpu.step", e, "check_input", 0)
    /\ input_result \in {"Continue", "SaveState", "LoadState"}
          => pc \notin {"close", "returned", "panicked"}
    /\ pc = "returned"
          => /\ Once("audio.close", 0)
             /\ calls[Len(calls)].op = "audio.close"
             /\ calls[Len(calls) - 1].op = "check_input"
    /\ pc # "returned" => Never("audio.close", 0)

\* The part of C4 about the normal return, which the code keeps.
C4_NormalReturn ==
    /\ pc \in {"close", "returned"} => input_result = "Quit"
    /\ Count("check_input", 0) <= 1
    /\ At("check_input", 0) # {}
          => /\ ppu_result[0].new_frame
             /\ \A e \in Emus : Once("cpu.step", e) /\ Before("cpu.step", e, "check_input", 0)
    /\ pc = "returned"
          => /\ Once("audio.close", 0)
             /\ calls[Len(calls)].op = "audio.close"
             /\ calls[Len(calls) - 1].op = "check_input"
    /\ pc # "returned" => Never("audio.close", 0)

\* ------------------------------------------------------------------- C5

\* What every iteration does with the sinks whatever the build: nothing
\* without a frame of emulator 0, and with one: gfx.tick(), then
\* gfx.composite(cpu's screen), then check_input(), once each.
C5_Sinks ==
    /\ \A op \in {"gfx.tick", "gfx.composite", "play_channels", "check_input"} :
          /\ Count(op, 0) <= 1
          /\ ~ppu_result[0].new_frame => Never(op, 0)
    /\ (ppu_result[0].new_frame /\ pc \in AfterPoll)
          => /\ Once("gfx.tick", 0) /\ Once("gfx.composite", 0) /\ Once("check_input", 0)
             /\ Before("gfx.tick", 0, "gfx.composite", 0)
             /\ Before("gfx.composite", 0, "check_input", 0)
             /\ \A i \in At("gfx.composite", 0) : calls[i].arg = 0

\* The audio push, between composite and the input poll.
C5_AudioPushed ==
    (ppu_result[0].new_frame /\ pc \in AfterPoll)
        => /\ Once("play_channels", 0)
           /\ Before("gfx.composite", 0, "play_channels", 0)
           /\ Before("play_channels", 0, "check_input", 0)

\* C5 as stated: in every iteration with new_frame the loop performs, once each
\* and in this order, gfx.tick(), gfx.composite(framebuffer), the audio push
\* (play_channels) and check_input(); in the other iterations none of them.
C5_FrameSequence == C5_Sinks /\ C5_AudioPushed

\* C5 as amended: the same, with the audio push only in a build with the audio
\* feature; a build without it never calls play_channels.
C5_FrameSequenceByBuild ==
    /\ C5_Sinks
    /\ audio => C5_AudioPushed
    /\ ~audio => Never("play_channels", 0)

\* C5 witness: a frame of an audio build, presented, pushed and polled.
C5_Witness ==
    /\ pc = "match"
    /\ audio
    /\ ppu_result[0].new_frame
    /\ Once("gfx.tick", 0) /\ Once("play_channels", 0) /\ Once("check_input", 0)

\* ------------------------------------------------------------------- C6

\* C6 as stated: a failing save or load does not terminate the emulator; the
\* loop goes on with the next iteration.
C6_FailedSaveLoadContinues ==
    /\ panicked # "unwrap"
    /\ input_result \in {"SaveState", "LoadState"} => pc # "panicked"

\* ------------------------------------------------------------------- C7

\* Positions at which the loop has been left: by the break, or by a panic.
LoopLeft == {"close", "returned", "panicked"}

\* The PPU's side of C7's premise: as long as the loop keeps stepping it,
\* emulator 0's PPU reports a new frame again and again.
C7_FramesKeepComing == []<>(pc = "swap" \/ pc \in LoopLeft)

\* The input sink's side of C7's premise: at some point of the running loop the
\* sink starts to answer Quit, and answers Quit to every poll from then on.
C7_QuitFromSomePoint == <>(pc \notin LoopLeft /\ [](pc = "match" => input_result = "Quit"))

\* The premise of C7 can hold: refuted by a run in which frames keep coming and
\* the sink turns to Quit while the loop runs.
C7_PremiseNeverHolds == ~(C7_FramesKeepComing /\ C7_QuitFromSomePoint)

\* C7: if emulator 0's PPU keeps reporting new_frame and from some point of the
\* running loop on every poll returns Quit, start_emulator eventually returns,
\* after audio::close(); every poll answered Quit leads to that return; and a
\* Quit is observed only by a poll, which happens only in an iteration whose
\* ppu.step reported new_frame.
C7_QuitEventuallyReturns ==
    /\ (C7_FramesKeepComing /\ C7_QuitFromSomePoint)
          => <>(pc = "returned" /\ Once("audio.close", 0))
    /\ (pc = "match" /\ input_result = "Quit") ~> (pc = "returned" /\ Once("audio.close", 0))
    /\ [](pc \in {"check_input", "match"} => ppu_result[0].new_frame)

\* C7 witness: the loop has returned, after audio::close(), on a poll answered
\* Quit that came after an earlier poll had been answered otherwise.
C7_Witness ==
    /\ pc = "returned"
    /\ input_result = "Quit"
    /\ status_line = "Saved state"
    /\ Once("audio.close", 0)
    /\ ppu_result[0].new_frame

\* ------------------------------------------------------------------- C8

\* Positions of an iteration after lines 296-300.
AfterApu == {"now", "swap", "present", "record_fps", "play_channels", "check_input",
             "match", "mirror", "frame1", "loop_end"}

\* Where apu.step is called, it is called after the CPU step, both PPU steps
\* and the interrupt dispatch, with the cy that cpu.step left.
C8_ApuOrder ==
    \A e \in Emus :
        /\ Count("apu.step", e) <= 1
        /\ \A j \in At("apu.step", e) :
              /\ \A f \in Emus : \A op \in {"cpu.step", "ppu.step", "cpu.nmi", "cpu.irq"} :
                    Before(op, f, "apu.step", e)
              /\ Once("cpu.step", e) /\ Once("ppu.step", e)
              /\ \A i \in At("cpu.step", e) : calls[j].arg = calls[i].arg

\* C8 as stated: in every iteration apu.step(cpu.cy) is called exactly once per
\* emulator, after that iteration's ppu.step and interrupt dispatch and before
\* the next cpu.step.
C8_ApuEveryIteration ==
    /\ C8_ApuOrder
    /\ pc \in AfterApu => \A e \in Emus : Once("apu.step", e)

\* C8 as amended: so it is in a build with the audio feature; a build without
\* it never calls apu.step.
C8_ApuByBuild ==
    /\ C8_ApuOrder
    /\ audio => (pc \in AfterApu => \A e \in Emus : Once("apu.step", e))
    /\ ~audio => \A e \in Emus : Never("apu.step", e)

\* C8 witness: both APUs advanced in an audio build, the CPUs' counters differing.
C8_Witness ==
    /\ pc = "now"
    /\ audio
    /\ cpu[0].cy # cpu[1].cy
    /\ \A e \in Emus : Once("apu.step", e) /\ apu_cy[e] = cpu[e].cy

\* ------------------------------------------------------------------- C9

\* Where start_emulator goes from position p, told from the PPU result and the
\* input result of the iteration alone: no Stats and no trace buffer is asked.
NextPc(p) ==
    CASE p = "cpu_step"      -> {"cpu1_step"}
      [] p = "cpu1_step"     -> {"count"}
      [] p = "count"         -> {"ppu_step"}
      [] p = "ppu_step"      -> {"ppu1_step"}
      [] p = "ppu1_step"     -> {"apu_step"}
      [] p = "apu_step"      -> {"now"}
      [] p = "now"           -> {IF ppu_result[0].new_frame THEN "swap" ELSE "frame1"}
      [] p = "swap"          -> {"present"}
      [] p = "present"       -> {"record_fps"}
      [] p = "record_fps"    -> {"play_channels"}
      [] p = "play_channels" -> {"check_input"}
      [] p = "check_input"   -> {"match"}
      [] p = "match"         -> IF input_result = "Quit" THEN {"close"}
                                ELSE IF input_result = "Continue" THEN {"mirror"}
                                ELSE {"mirror", "panicked"}
      [] p = "mirror"        -> {"frame1"}
      [] p = "frame1"        -> {"loop_end"}
      [] p = "loop_end"      -> {"cpu_step"}
      [] p = "close"         -> {"returned"}
      [] OTHER               -> {}

\* C9: two runs of the loop that differ only in what their Stats and their CPU
\* trace buffers hold make the same cpu.step, ppu.step, nmi/irq, apu.step,
\* present, input-poll and exit events: every test that reads a Stats or a
\* trace buffer (the assert!s of record_fps) comes out in the second run as in
\* the first, and never aborts the loop; and where the loop goes next is told
\* from the PPU result and the input result alone.
C9_Observational ==
    /\ [](twin.on => twin.agrees /\ panicked # "assert")
    /\ [][pc' \in NextPc(pc)]_vars

\* C9 witness: both runs are past record_fps of the same frame, the second with
\* other branch and load addresses and another frame count in its Stats.
C9_Witness ==
    /\ twin.on
    /\ twin.agrees
    /\ pc = "play_channels"
    /\ Once("record_fps", 0)
    /\ stats[0].addrs_visited_old # {}
    /\ stats[0].memory_reads_old # {}
    /\ twin.stats[0].addrs_visited_old # stats[0].addrs_visited_old
    /\ twin.stats[0].memory_reads_old # stats[0].memory_reads_old
    /\ twin.stats[0].frames # stats[0].frames

\* ------------------------------------------------------------------ C10

\* C10: the four assert!s of record_fps never fail: whenever record_fps is
\* entered (and in every other state between two calls) addrs_visited,
\* addrs_not_visited, memory_reads and memory_writes are empty.
C10_AssertsHold ==
    /\ panicked # "assert"
    /\ \A e \in Emus : record_fps_asserts(stats[e])

\* C10 witness: record_fps is entered again for stats, with entries to add and
\* with the entries of an earlier call moved to the *_old sets.
C10_Witness ==
    /\ pc = "record_fps"
    /\ stats[0].memory_reads_old # {}
    /\ stats[0].addrs_visited_old # {}
    /\ stats[0].loads # << >>

\* ------------------------------------------------------------------ C11

\* What emulator e's own components hold: its CPU (with its input state), the
\* cycle its PPU and its APU were advanced to.
Own(e) == <<cpu[e], ppu_cy[e], apu_cy[e]>>

\* What emulator e can read: its own components and the mapper behind its
\* buses.
Readable(e) == <<Own(e), mapper>>

\* C11 as stated: an operation on emulator 1 (cpu1.step, ppu1.step and its
\* dispatch) leaves everything emulator 0 can read unchanged, and vice versa;
\* apu.step changes nothing but the APUs; the only flow from one instance to
\* the other is the gamepad copy at emulator 0's frame boundaries.
C11_Isolated ==
    [][ /\ pc \in {"cpu1_step", "ppu1_step"} => Readable(0)' = Readable(0)
        /\ pc \in {"cpu_step", "ppu_step"} => Readable(1)' = Readable(1)
        /\ pc = "apu_step" => cpu' = cpu /\ ppu_cy' = ppu_cy /\ mapper' = mapper
        /\ Own(1)' # Own(1) /\ pc \notin {"cpu1_step", "ppu1_step", "apu_step", "frame1"}
              => /\ pc = "mirror"
                 /\ ppu_result[0].new_frame
                 /\ [cpu'[1] EXCEPT !.gamepad_0 = cpu[1].gamepad_0] = cpu[1]
      ]_vars

\* The part of C11 about the emulators' own components, which the code keeps.
C11_OwnIsolated ==
    [][ /\ pc \in {"cpu1_step", "ppu1_step"} => Own(0)' = Own(0)
        /\ pc \in {"cpu_step", "ppu_step"} => Own(1)' = Own(1)
        /\ pc = "apu_step" => cpu' = cpu /\ ppu_cy' = ppu_cy /\ mapper' = mapper
        /\ Own(1)' # Own(1) /\ pc \notin {"cpu1_step", "ppu1_step", "apu_step", "frame1"}
              => /\ pc = "mirror"
                 /\ ppu_result[0].new_frame
                 /\ [cpu'[1] EXCEPT !.gamepad_0 = cpu[1].gamepad_0] = cpu[1]
      ]_vars

\* ------------------------------------------------------------------ C12

Buffers == {"branches_taken", "branches_not_taken", "loads", "stores"}

NoTrace(r) == \A f \in Buffers : r[f] = << >>

IsPrefix(s, t) == Len(s) <= Len(t) /\ SubSeq(t, 1, Len(s)) = s

\* C12: the trace hand-off loses and duplicates nothing.  For each emulator:
\* between two frame boundaries its CPU's buffers only grow; the Stats buffers
\* are empty before the swap; the swap hands the Stats every entry of the CPU's
\* buffers and leaves the CPU's buffers empty; record_fps collects exactly
\* those entries; after record_fps the Stats and the CPU buffers are empty.
C12_HandOff ==
    [][ /\ pc \notin {"swap", "frame1"}
              => \A e \in Emus : \A f \in Buffers : IsPrefix(cpu[e][f], cpu'[e][f])
        /\ pc = "swap"
              => /\ NoTrace(stats[0])
                 /\ \A f \in Buffers : stats'[0][f] = cpu[0][f]
                 /\ NoTrace(cpu'[0])
        /\ pc \in {"present", "record_fps"} => NoTrace(cpu[0])
        /\ pc = "record_fps" /\ pc' # "panicked"
              => /\ stats'[0].addrs_visited_old = Range(stats[0].branches_taken)
                 /\ stats'[0].addrs_not_visited_old = Range(stats[0].branches_not_taken)
                 /\ stats'[0].memory_reads_old = { l[2] : l \in Range(stats[0].loads) }
                 /\ stats'[0].memory_writes_old = { l[2] : l \in Range(stats[0].stores) }
                 /\ NoTrace(stats'[0]) /\ NoTrace(cpu'[0])
        /\ pc \notin {"swap", "present"} => NoTrace(stats'[0])
        /\ pc = "frame1" /\ ppu_result[1].new_frame /\ pc' # "panicked"
              => /\ NoTrace(stats[1])
                 /\ stats'[1].addrs_visited_old = Range(cpu[1].branches_taken)
                 /\ stats'[1].addrs_not_visited_old = Range(cpu[1].branches_not_taken)
                 /\ stats'[1].memory_reads_old = { l[2] : l \in Range(cpu[1].loads) }
                 /\ stats'[1].memory_writes_old = { l[2] : l \in Range(cpu[1].stores) }
                 /\ NoTrace(cpu'[1])
        /\ NoTrace(stats'[1])
        /\ panicked' # "assert"
      ]_vars

\* C12 witness: emulator 0's second hand-off, two entries handed over, the
\* CPU's buffers left empty.
C12_Witness ==
    /\ pc = "present"
    /\ Len(stats[0].branches_taken) + Len(stats[0].stores) = 2
    /\ stats[0].memory_reads_old # {}
    /\ NoTrace(cpu[0])

\* ------------------------------------------------------------------ C13

\* Positions of the frame block of lines 309-353 after gfx1.composite.
AfterPresent == {"record_fps", "play_channels", "check_input"} \cup AfterPoll

\* The calls an iteration makes before it reads the clock.
StepOps == {"cpu.step", "ppu.step", "cpu.nmi", "cpu.irq", "apu.step"}

\* C13: gfx1.tick() then gfx1.composite(cpu1's screen) happen in exactly the
\* iterations in which emulator 0's PPU reported new_frame, whatever emulator
\* 1's PPU reported; an iteration in which only emulator 1 reported new_frame
\* presents nothing, polls no input and, after the steps, only runs record_fps
\* for stats1.
C13_Emu1Presentation ==
    /\ Count("gfx.tick", 1) <= 1 /\ Count("gfx.composite", 1) <= 1
    /\ (ppu_result[0].new_frame /\ pc \in AfterPresent)
          => /\ Once("gfx.tick", 1) /\ Once("gfx.composite", 1)
             /\ Before("gfx.tick", 1, "gfx.composite", 1)
             /\ \A i \in At("gfx.composite", 1) : calls[i].arg = 1
    /\ ~ppu_result[0].new_frame
          => /\ Never("gfx.tick", 1) /\ Never("gfx.composite", 1)
             /\ \A i \in 1..Len(calls) :
                   \/ calls[i].op \in StepOps
                   \/ calls[i].op = "record_fps" /\ calls[i].emu = 1
    /\ Count("record_fps", 1) <= 1
    /\ At("record_fps", 1) # {} => ppu_result[1].new_frame
    /\ (ppu_result[1].new_frame /\ pc = "loop_end") => Once("record_fps", 1)

\* C13 witness: an iteration in which only emulator 1 completed a frame, after
\* one in which emulator 0 did: stats1 recorded, nothing presented or polled.
C13_Witness ==
    /\ pc = "loop_end"
    /\ ~ppu_result[0].new_frame /\ ppu_result[1].new_frame
    /\ stats[0].frames = 1
    /\ Once("record_fps", 1)
    /\ Never("gfx.tick", 1) /\ Never("check_input", 0)

\* ------------------------------------------------------------------ C14

C15_GamepadMirror ==
    [][ /\ cpu'[1].gamepad_0 # cpu[1].gamepad_0
              => /\ pc = "mirror"
                 /\ ppu_result[0].new_frame
                 /\ Once("check_input", 0)
                 /\ input_result \in {"Continue", "SaveState", "LoadState"}
        /\ pc \in {"match", "mirror"} => cpu'[0].gamepad_0 = cpu[0].gamepad_0
        /\ pc = "mirror"
              => \A b \in Buttons :
                    cpu'[1].gamepad_0[b] =
                        IF b = "right" /\ started THEN TRUE ELSE cpu[0].gamepad_0[b]
        /\ (pc = "match" /\ input_result = "Quit") => pc' = "close"
      ]_vars

\* C15 witness: after a boundary that saved the state with `started` set,
\* cpu1 mirrors cpu0's pressed a and has right forced.
C15_Witness ==
    /\ pc = "frame1"
    /\ input_result = "SaveState"
    /\ started
    /\ cpu[0].gamepad_0["a"] /\ cpu[1].gamepad_0["a"]
    /\ cpu[1].gamepad_0["right"] /\ ~cpu[0].gamepad_0["right"]

\* ------------------------------------------------------------------ C16

\* The order the counters of one Stats keep.
Ordered(s) ==
    /\ s.conditional_jumps <= s.steps
    /\ s.conditional_jumps_s <= s.steps_s
    /\ s.steps_s <= s.steps

\* What a step of the loop may do to the counters of one Stats: the
\* cumulative ones change only in lines 266-280, steps by one; the per-second
\* ones are otherwise only zeroed, together with frames, by record_fps.
CountersStep(s, t) ==
    /\ t.steps # s.steps => pc = "count" /\ t.steps = s.steps + 1
    /\ t.conditional_jumps # s.conditional_jumps
          => pc = "count" /\ t.conditional_jumps = s.conditional_jumps + 1
    /\ pc = "count" => t.steps = s.steps + 1 /\ t.steps_s = s.steps_s + 1
    /\ (pc # "count" /\ <<t.steps_s, t.conditional_jumps_s>> # <<s.steps_s, s.conditional_jumps_s>>)
          => /\ pc \in {"record_fps", "frame1"}
             /\ now >= s.last_time + 1
             /\ t.frames = 0 /\ t.steps_s = 0 /\ t.conditional_jumps_s = 0
    /\ (pc # "count" /\ t.frames = 0 /\ s.frames # 0)
          => t.steps_s = 0 /\ t.conditional_jumps_s = 0

\* C16: at the head of every iteration stats.steps = stats1.steps, one step
\* counted per emulator per iteration; conditional_jumps <= steps and
\* conditional_jumps_s <= steps_s <= steps in every state, across the
\* once-per-second resets too, which zero frames, steps_s and
\* conditional_jumps_s together and leave steps and conditional_jumps alone.
C16_LockStepCounters ==
    /\ \A e \in Emus : Ordered(stats[e])
    /\ stats[0].steps = stats[1].steps
    /\ [][ /\ \A e \in Emus : Ordered(stats'[e]) /\ CountersStep(stats[e], stats'[e])
           /\ stats'[0].steps = stats'[1].steps
         ]_vars

\* C16 witness: emulator 0 has counted two jumps in two steps, the first of
\* them before a once-per-second reset.
C16_Witness ==
    /\ pc = "ppu_step"
    /\ stats[0].last_time = 1
    /\ stats[0].steps = 2 /\ stats[0].steps_s = 1
    /\ stats[0].conditional_jumps = 2 /\ stats[0].conditional_jumps_s = 1
    /\ stats[1].steps = 2 /\ stats[1].conditional_jumps = 0

====
